---- MODULE Spec2Model ----
(***************************************************************************)
(* Gait cycle analysis engine of gait-analyzer: dash_app/utils.py          *)
(* (calc_metrics, avg_gait_phase) together with the primitives it imports  *)
(* from data.gait_cycle_detector and data.timeseries_utils                 *)
(* (normed_gait_phases, align_values, filter_outliers).                    *)
(*                                                                         *)
(* Numbers.  Angles and frame indices are integers.  A sample (a 1-d numpy *)
(* array) is a record [num |-> <<n1, ..>>, den |-> d] standing for the     *)
(* values n1/d, ..: all arithmetic on it is exact.  A scalar float is a    *)
(* record of kind "num" (p/q, q > 0), "inf" or "nan".  Text is a sequence  *)
(* of one-character strings.                                               *)
(***************************************************************************)
EXTENDS Integers, Sequences, FiniteSets, TLC

VARIABLES angles, events, pc, cycles, timing, samples, metrics, ret, raised, args,
          result

vars == <<angles, events, pc, cycles, timing, samples, metrics, ret, raised, args,
          result>>

(***************************************************************************)
(* Program constants                                                       *)
(***************************************************************************)
NPoints == 101
LoadingEnd == 30
DefaultFps == 50
StanceTolerance == 30
DoubleTolerance == 10
OutlierSigma == 2

Scale == NPoints - 1

(***************************************************************************)
(* Bounds of the model                                                     *)
(***************************************************************************)
MaxEvents == 2
NFrames == 22
WavePeriod == 12
MaxStrides == 7
StrideFrames == 40
MaxNormEvents == 3
MaxAlignLen == 2
MaxFilterLen == 7
MaxRatioLen == 2

(***************************************************************************)
(* Arithmetic helpers                                                      *)
(***************************************************************************)
Abs(x) == IF x < 0 THEN -x ELSE x

MinOf(x, y) == IF x <= y THEN x ELSE y

RECURSIVE Sum(_)
Sum(s) == IF Len(s) = 0 THEN 0 ELSE Head(s) + Sum(Tail(s))

SeqMax(s) == CHOOSE m \in {s[i] : i \in 1..Len(s)} : \A j \in 1..Len(s) : s[j] <= m

SeqMin(s) == CHOOSE m \in {s[i] : i \in 1..Len(s)} : \A j \in 1..Len(s) : s[j] >= m

RECURSIVE GCD(_, _)
GCD(x, y) == IF y = 0 THEN x ELSE GCD(y, x % y)

\* largest m in lo..hi with m*m <= n (lo*lo <= n is given)
RECURSIVE ISqrtBetween(_, _, _)
ISqrtBetween(n, lo, hi) ==
    IF lo >= hi THEN lo
    ELSE LET mid == (lo + hi + 1) \div 2
         IN IF mid * mid <= n THEN ISqrtBetween(n, mid, hi)
            ELSE ISqrtBetween(n, lo, mid - 1)

ISqrt(n) == ISqrtBetween(n, 0, MinOf(n, 46340))

\* p/q (p >= 0, q > 0) rounded to the nearest integer, ties to even
RoundHalfEven(p, q) ==
    LET f == p \div q
        r2 == 2 * (p % q)
    IN IF r2 < q THEN f
       ELSE IF r2 > q THEN f + 1
       ELSE IF f % 2 = 0 THEN f ELSE f + 1

(***************************************************************************)
(* Floats and samples                                                      *)
(***************************************************************************)
NaN == [kind |-> "nan"]

Inf(neg) == [kind |-> "inf", neg |-> neg]

Num(p, q) == [kind |-> "num", p |-> p, q |-> q]

Sample(num, den) == [num |-> num, den |-> den]

\* ndarray.mean(): nan (with a warning, no exception) for an empty array
Mean(values) ==
    IF Len(values.num) = 0 THEN NaN
    ELSE Num(Sum(values.num), Len(values.num) * values.den)

\* n * sum(x^2) - sum(x)^2, the numerator of the population variance
VarNum(num) ==
    Len(num) * Sum([i \in 1..Len(num) |-> num[i] * num[i]]) - Sum(num) * Sum(num)

(***************************************************************************)
(* Text: format specs ':.1f' and ':.2f'                                    *)
(***************************************************************************)
Digits == <<"0", "1", "2", "3", "4", "5", "6", "7", "8", "9">>

RECURSIVE NatStr(_)
NatStr(n) == IF n < 10 THEN <<Digits[n + 1]>>
             ELSE NatStr(n \div 10) \o <<Digits[(n % 10) + 1]>>

RECURSIVE Pow10(_)
Pow10(d) == IF d = 0 THEN 1 ELSE 10 * Pow10(d - 1)

RECURSIVE FracStr(_, _)
FracStr(n, d) == IF d = 0 THEN <<>>
                 ELSE FracStr(n \div 10, d - 1) \o <<Digits[(n % 10) + 1]>>

\* the text of (-1)^neg * scaled / 10^decimals with `decimals` decimals
FixedStr(neg, scaled, decimals) ==
    (IF neg THEN <<"-">> ELSE <<>>)
        \o NatStr(scaled \div Pow10(decimals))
        \o <<".">> \o FracStr(scaled % Pow10(decimals), decimals)

\* f"{x:.<decimals>f}"
FormatFloat(x, decimals) ==
    CASE x.kind = "nan" -> <<"n", "a", "n">>
      [] x.kind = "inf" -> (IF x.neg THEN <<"-">> ELSE <<>>) \o <<"i", "n", "f">>
      [] x.kind = "num" ->
            FixedStr(x.p < 0, RoundHalfEven(Pow10(decimals) * Abs(x.p), x.q), decimals)

\* f"{values.std():.1f}": the population standard deviation, one decimal
StdStr(values) ==
    IF Len(values.num) = 0 THEN <<"n", "a", "n">>
    ELSE LET a == VarNum(values.num)
             d == Len(values.num) * values.den
             m == ISqrt((400 * a) \div (d * d))      \* floor(20 * std)
             tenths == IF m % 2 = 0 THEN m \div 2
                       ELSE IF m * m * d * d = 400 * a
                            THEN (IF ((m - 1) \div 2) % 2 = 0
                                  THEN (m - 1) \div 2 ELSE (m + 1) \div 2)
                            ELSE (m + 1) \div 2
         IN FixedStr(FALSE, tenths, 1)

(***************************************************************************)
(* GaitCycleDetector.normed_gait_phases (CycleNormalizer)                  *)
(***************************************************************************)
\* angles[:, c]
Col(a, c) == [i \in 1..Len(a) |-> a[i][c + 1]]

\* signal[lo:hi] for lo, hi >= 0
Slice(signal, lo, hi) ==
    LET l == MinOf(lo, Len(signal))
        h == MinOf(hi, Len(signal))
    IN IF h <= l THEN <<>> ELSE SubSeq(signal, l + 1, h)

\* a segment of n >= 2 samples on the 101-point axis; values times Scale
Resample(seg) ==
    [k \in 1..NPoints |->
        LET pos == (k - 1) * (Len(seg) - 1)
            i == pos \div Scale
            rem == pos % Scale
        IN IF rem = 0 THEN Scale * seg[i + 1]
           ELSE Scale * seg[i + 1] + rem * (seg[i + 2] - seg[i + 1])]

\* a variant that keeps the segments of one sample
RECURSIVE NormedFromKeepSingle(_, _, _)
NormedFromKeepSingle(signal, evs, i) ==
    IF i + 1 > Len(evs) THEN <<>>
    ELSE LET seg == Slice(signal, evs[i], evs[i + 1])
         IN (IF Len(seg) < 1 THEN <<>> ELSE <<Resample(seg)>>)
                \o NormedFromKeepSingle(signal, evs, i + 1)

RECURSIVE NormedFrom(_, _, _)
NormedFrom(signal, evs, i) ==
    IF i + 1 > Len(evs) THEN <<>>
    ELSE LET seg == Slice(signal, evs[i], evs[i + 1])
         IN (IF Len(seg) < 2 THEN <<>> ELSE <<Resample(seg)>>)
                \o NormedFrom(signal, evs, i + 1)

normed_gait_phases(signal, evs) == NormedFrom(signal, evs, 1)

(***************************************************************************)
(* timeseries_utils.align_values (EventAligner)                            *)
(***************************************************************************)
\* the index of the nearest candidate of `other` for the anchor time t:
\* smallest absolute distance, the earlier index on equal distance
Nearest(other, cands, t) ==
    CHOOSE j \in cands : \A j2 \in cands :
        \/ Abs(other[j] - t) < Abs(other[j2] - t)
        \/ Abs(other[j] - t) = Abs(other[j2] - t) /\ j <= j2

\* the candidates of the anchor time t: the elements of `other` that no
\* pair has consumed and that are in the expected temporal order with t, an
\* element of events_b never preceding its element of events_a
Candidates(other, used, t, start_left) ==
    {j \in 1..Len(other) :
        j \notin used /\ (IF start_left THEN other[j] >= t ELSE other[j] <= t)}

\* a variant with an exclusive tolerance boundary
RECURSIVE MatchFromExclusive(_, _, _, _, _, _)
MatchFromExclusive(anchor, other, i, used, tolerance, start_left) ==
    IF i > Len(anchor) THEN <<>>
    ELSE LET cands == Candidates(other, used, anchor[i], start_left)
         IN IF cands = {} THEN MatchFromExclusive(anchor, other, i + 1, used, tolerance,
                             start_left)
            ELSE LET j == Nearest(other, cands, anchor[i])
                 IN IF Abs(other[j] - anchor[i]) < tolerance
                    THEN <<<<i, j>>>> \o MatchFromExclusive(anchor, other, i + 1,
                                                            used \cup {j}, tolerance, start_left)
                    ELSE MatchFromExclusive(anchor, other, i + 1, used, tolerance,
                             start_left)

\* a variant that does not mark the matched element as consumed
RECURSIVE MatchFromReuse(_, _, _, _, _, _)
MatchFromReuse(anchor, other, i, used, tolerance, start_left) ==
    IF i > Len(anchor) THEN <<>>
    ELSE LET cands == Candidates(other, used, anchor[i], start_left)
         IN IF cands = {} THEN MatchFromReuse(anchor, other, i + 1, used, tolerance,
                             start_left)
            ELSE LET j == Nearest(other, cands, anchor[i])
                 IN IF Abs(other[j] - anchor[i]) <= tolerance
                    THEN <<<<i, j>>>> \o MatchFromReuse(anchor, other, i + 1,
                                                        used, tolerance, start_left)
                    ELSE MatchFromReuse(anchor, other, i + 1, used, tolerance,
                             start_left)

RECURSIVE MatchFrom(_, _, _, _, _, _)
MatchFrom(anchor, other, i, used, tolerance, start_left) ==
    IF i > Len(anchor) THEN <<>>
    ELSE LET cands == Candidates(other, used, anchor[i], start_left)
         IN IF cands = {} THEN MatchFrom(anchor, other, i + 1, used, tolerance,
                             start_left)
            ELSE LET j == Nearest(other, cands, anchor[i])
                 IN IF Abs(other[j] - anchor[i]) <= tolerance
                    THEN <<<<i, j>>>> \o MatchFrom(anchor, other, i + 1,
                                                   used \cup {j}, tolerance, start_left)
                    ELSE MatchFrom(anchor, other, i + 1, used, tolerance,
                             start_left)

\* the matched index pairs <<index in a, index in b>>, in anchor order
AlignPairs(a, b, tolerance, start_left) ==
    IF start_left THEN MatchFrom(a, b, 1, {}, tolerance, TRUE)
    ELSE LET m == MatchFrom(b, a, 1, {}, tolerance, FALSE)
         IN [n \in 1..Len(m) |-> <<m[n][2], m[n][1]>>]

Delta(mode, ta, tb) == CASE mode = "diff" -> tb - ta

NoError == "none"

MisalignedSequenceError == "MisalignedSequenceError"

align_values(a, b, mode, tolerance, start_left) ==
    IF Len(a) = 0 /\ Len(b) = 0
    THEN [raised |-> MisalignedSequenceError, pairs |-> <<>>, values |-> <<>>]
    ELSE LET m == AlignPairs(a, b, tolerance, start_left)
         IN [raised |-> NoError, pairs |-> m,
             values |-> [n \in 1..Len(m) |-> Delta(mode, a[m[n][1]], b[m[n][2]])]]

(***************************************************************************)
(* timeseries_utils.filter_outliers (OutlierFilter)                        *)
(***************************************************************************)
\* |x - mean| > OutlierSigma * std, for x = num[i] of a sample of n values:
\* (n*x - sum)^2 > OutlierSigma^2 * (n*sum(x^2) - sum^2)
IsOutlier(num, x) ==
    LET d == Len(num) * x - Sum(num)
    IN d * d > OutlierSigma * OutlierSigma * VarNum(num)

\* a variant with the comparison inverted: it keeps the outliers
filter_outliersInverted(values) ==
    Sample(SelectSeq(values.num, LAMBDA x : IsOutlier(values.num, x)), values.den)

filter_outliers(values) ==
    IF Len(values.num) <= 2 THEN values
    ELSE Sample(SelectSeq(values.num, LAMBDA x : ~IsOutlier(values.num, x)),
                values.den)

(***************************************************************************)
(* dash_app/utils.py: calc_metrics (MetricsAggregator)                     *)
(***************************************************************************)
\* x / y on float64: division by zero gives inf or nan, never an exception
FDiv(x, y) ==
    IF x.kind = "nan" \/ y.kind = "nan" THEN NaN
    ELSE IF y.p = 0 THEN (IF x.p = 0 THEN NaN ELSE Inf(x.p < 0))
    ELSE LET p == x.p * y.q * (IF y.p < 0 THEN -1 ELSE 1)
             q == x.q * Abs(y.p)
             g == GCD(Abs(p), q)
         IN Num(p \div g, q \div g)

\* x > 1 (False for nan)
GreaterOne(x) ==
    CASE x.kind = "nan" -> FALSE
      [] x.kind = "inf" -> ~x.neg
      [] x.kind = "num" -> x.p > x.q

\* 100 * x - 100
Percent(x) == IF x.kind = "num" THEN Num(100 * x.p - 100 * x.q, x.q) ELSE x

_mean_std_str(values, unit) ==
    FormatFloat(Mean(values), 1) \o <<" ", "±", " ">> \o StdStr(values)
        \o <<" ">> \o unit

\* a variant that takes the sign from r > l instead of r / l > 1
_ratio_strCompare(r, l) ==
    LET rm == Mean(r)
        lm == Mean(l)
        ratio == FDiv(rm, lm)
        sign == IF rm.kind = "num" /\ lm.kind = "num" /\ rm.p * lm.q > lm.p * rm.q
                THEN <<"+">> ELSE <<>>
    IN sign \o FormatFloat(Percent(ratio), 2) \o <<"%">>

_ratio_str(r, l) ==
    LET ratio == FDiv(Mean(r), Mean(l))
        sign == IF GreaterOne(ratio) THEN <<"+">> ELSE <<>>
    IN sign \o FormatFloat(Percent(ratio), 2) \o <<"%">>

\* a variant that takes the ratio from the unfiltered samples
_rowRatioUnfiltered(name, unit, right, left) ==
    LET fr == filter_outliers(right)
        fl == filter_outliers(left)
    IN <<name, _mean_std_str(fr, unit), _mean_std_str(fl, unit), _ratio_str(right, left)>>

_row(name, unit, right, left) ==
    LET fr == filter_outliers(right)
        fl == filter_outliers(left)
    IN <<name, _mean_std_str(fr, unit), _mean_std_str(fl, unit), _ratio_str(fr, fl)>>

\* a variant that leaves the values in seconds: values / fps
_timeSeconds(values, fps) == Sample(values, fps)

\* values / fps * 1000
_time(values, fps) ==
    LET g == GCD(1000, fps)
    IN Sample([i \in 1..Len(values) |-> values[i] * (1000 \div g)], fps \div g)

names == <<"Metric", "Right side", "Left side", "Right / Left ratio">>

Degree == <<"°">>

Millis == <<"m", "s">>

\* np.diff
Diff(s) == [i \in 1..(IF Len(s) = 0 THEN 0 ELSE Len(s) - 1) |-> s[i + 1] - s[i]]

\* cycles.ptp(axis=-1), cycles.max(axis=-1), cycles[..., :30].max(axis=-1)
PtpRows(cyc) == Sample([c \in 1..Len(cyc) |-> SeqMax(cyc[c]) - SeqMin(cyc[c])], Scale)

MaxRows(cyc) == Sample([c \in 1..Len(cyc) |-> SeqMax(cyc[c])], Scale)

\* a variant that forgets the slice
LoadingMaxRowsFull(cyc) == Sample([c \in 1..Len(cyc) |-> SeqMax(cyc[c])], Scale)

LoadingMaxRows(cyc) ==
    Sample([c \in 1..Len(cyc) |-> SeqMax(SubSeq(cyc[c], 1, LoadingEnd))], Scale)

\* a copy-paste slip: the left cycles cut at the right strikes
NormedCyclesSameEvents(ang, evs) ==
    <<normed_gait_phases(Col(ang, 0), evs[1]), normed_gait_phases(Col(ang, 1), evs[1])>>

\* lines 79-80
NormedCycles(ang, evs) ==
    <<normed_gait_phases(Col(ang, 0), evs[1]), normed_gait_phases(Col(ang, 1), evs[2])>>

\* a variant with the tolerance of the stance alignments in all six calls
AlignmentsOneTolerance(evs) ==
    LET rhs == evs[1]
        lhs == evs[2]
        rto == evs[3]
        lto == evs[4]
    IN [rstance |-> align_values(rhs, rto, "diff", StanceTolerance, TRUE),
        lstance |-> align_values(lhs, lto, "diff", StanceTolerance, TRUE),
        rswing |-> align_values(rto, rhs, "diff", StanceTolerance, TRUE),
        lswing |-> align_values(lto, lhs, "diff", StanceTolerance, TRUE),
        rdouble |-> align_values(rhs, lto, "diff", StanceTolerance, TRUE),
        ldouble |-> align_values(lhs, rto, "diff", StanceTolerance, TRUE)]

\* lines 82-89: the six alignments, in the order of the calls
Alignments(evs) ==
    LET rhs == evs[1]
        lhs == evs[2]
        rto == evs[3]
        lto == evs[4]
    IN [rstance |-> align_values(rhs, rto, "diff", StanceTolerance, TRUE),
        lstance |-> align_values(lhs, lto, "diff", StanceTolerance, TRUE),
        rswing |-> align_values(rto, rhs, "diff", StanceTolerance, TRUE),
        lswing |-> align_values(lto, lhs, "diff", StanceTolerance, TRUE),
        rdouble |-> align_values(rhs, lto, "diff", DoubleTolerance, TRUE),
        ldouble |-> align_values(lhs, rto, "diff", DoubleTolerance, TRUE)]

\* a variant that swallows the exception of align_values
AlignmentRaisesNever(al) == FALSE

AlignmentRaises(al) == \E k \in DOMAIN al : al[k].raised /= NoError

AlignedValues(al) == [k \in DOMAIN al |-> al[k].values]

\* lines 92-98: the arguments of the seven _row calls, in list order
RowArgs(cyc, evs, t) ==
    <<<<"Range of motion", Degree, PtpRows(cyc[1]), PtpRows(cyc[2])>>,
      <<"Max peak", Degree, MaxRows(cyc[1]), MaxRows(cyc[2])>>,
      <<"Max peak (loading response)", Degree,
        LoadingMaxRows(cyc[1]), LoadingMaxRows(cyc[2])>>,
      <<"Total step time", Millis,
        _time(Diff(evs[1]), DefaultFps), _time(Diff(evs[2]), DefaultFps)>>,
      <<"Stance time", Millis,
        _time(t.rstance, DefaultFps), _time(t.lstance, DefaultFps)>>,
      <<"Swing time", Millis,
        _time(t.rswing, DefaultFps), _time(t.lswing, DefaultFps)>>,
      <<"Double support time", Millis,
        _time(t.rdouble, DefaultFps), _time(t.ldouble, DefaultFps)>>>>

\* a variant that leaves out the rows one of whose samples is empty
MetricsSkipEmpty(ra) ==
    LET kept == SelectSeq(ra, LAMBDA a : Len(a[3].num) > 0 /\ Len(a[4].num) > 0)
    IN [i \in 1..Len(kept) |-> _row(kept[i][1], kept[i][2], kept[i][3], kept[i][4])]

\* lines 92-99: the list of rows
Metrics(ra) == [i \in 1..Len(ra) |-> _row(ra[i][1], ra[i][2], ra[i][3], ra[i][4])]

\* pd.DataFrame(metrics, columns=names)
DataFrame(rows, columns) == [columns |-> columns, rows |-> rows]

None == [columns |-> <<>>, rows |-> <<>>]

\* the whole call: what it returns, or the exception that leaves it
calc_metrics(ang, evs) ==
    LET al == Alignments(evs)
    IN IF AlignmentRaises(al)
       THEN [raised |-> MisalignedSequenceError, ret |-> None]
       ELSE [raised |-> NoError,
             ret |-> DataFrame(Metrics(RowArgs(NormedCycles(ang, evs), evs,
                                                       AlignedValues(al))),
                               names)]

(***************************************************************************)
(* dash_app/utils.py: avg_gait_phase                                       *)
(***************************************************************************)
\* np.mean(phases, axis=0) of an (N, 101) table
MeanAxis0(cyc) ==
    [k \in 1..NPoints |-> Mean(Sample([c \in 1..Len(cyc) |-> cyc[c][k]], Scale))]

\* a copy-paste slip: both curves from the right column
avg_gait_phaseOneColumn(ang, evs) ==
    <<MeanAxis0(normed_gait_phases(Col(ang, 0), evs[1])),
      MeanAxis0(normed_gait_phases(Col(ang, 0), evs[2]))>>

avg_gait_phase(ang, evs) ==
    <<MeanAxis0(normed_gait_phases(Col(ang, 0), evs[1])),
      MeanAxis0(normed_gait_phases(Col(ang, 1), evs[2]))>>

(***************************************************************************)
(* Inputs: recordings and event sequences                                  *)
(***************************************************************************)
StrikeFrames == {0, 1, 21}

OffFrames == {11, 31}

Phases == {0, 3}

RECURSIVE SortedSeqOf(_)
SortedSeqOf(S) ==
    IF S = {} THEN <<>>
    ELSE LET m == CHOOSE x \in S : \A y \in S : x <= y
         IN <<m>> \o SortedSeqOf(S \ {m})

\* EventSequence: ascending, deduplicated, possibly empty
EventSeqs(F) == {SortedSeqOf(S) : S \in {T \in SUBSET F : Cardinality(T) <= MaxEvents}}

\* a triangular knee-angle wave, in degrees
Wave(f, phase) ==
    LET h == WavePeriod \div 2
    IN h - Abs(((f + phase) % WavePeriod) - h)

Recording(pr, pl) == [i \in 1..NFrames |-> <<Wave(i - 1, pr), Wave(i - 1, pl)>>]

NoEvents == <<<<>>, <<>>, <<>>, <<>>>>

NoTiming == [rstance |-> <<>>, lstance |-> <<>>, rswing |-> <<>>,
             lswing |-> <<>>, rdouble |-> <<>>, ldouble |-> <<>>]

(***************************************************************************)
(* The engine: one call of calc_metrics or of avg_gait_phase on a          *)
(* recording                                                               *)
(***************************************************************************)
Init ==
    /\ \E pr \in Phases, pl \in Phases : angles = Recording(pr, pl)
    /\ events \in EventSeqs(StrikeFrames) \X EventSeqs(StrikeFrames)
                    \X EventSeqs(OffFrames) \X EventSeqs(OffFrames)
    /\ pc = "idle"
    /\ cycles = <<<<>>, <<>>>>
    /\ timing = NoTiming
    /\ samples = <<>>
    /\ metrics = <<>>
    /\ ret = None
    /\ raised = NoError
    /\ args = <<>>
    /\ result = <<>>

\* calc_metrics is entered (line 77)
CalcMetricsCall ==
    /\ pc = "idle"
    /\ pc' = "cm_cycles"
    /\ UNCHANGED <<angles, events, cycles, timing, samples, metrics, ret, raised, args,
                 result>>

\* lines 78-80
CalcMetricsCycles ==
    /\ pc = "cm_cycles"
    /\ cycles' = NormedCycles(angles, events)
    /\ pc' = "cm_align"
    /\ UNCHANGED <<angles, events, timing, samples, metrics, ret, raised, args, result>>

\* lines 82-89: an exception of align_values leaves calc_metrics at once
CalcMetricsAlign ==
    /\ pc = "cm_align"
    /\ LET al == Alignments(events)
       IN IF AlignmentRaises(al)
          THEN /\ raised' = MisalignedSequenceError
               /\ pc' = "raised"
               /\ UNCHANGED timing
          ELSE /\ timing' = AlignedValues(al)
               /\ pc' = "cm_rows"
               /\ UNCHANGED raised
    /\ UNCHANGED <<angles, events, cycles, samples, metrics, ret, args, result>>

\* lines 92-99
CalcMetricsRows ==
    /\ pc = "cm_rows"
    /\ samples' = RowArgs(cycles, events, timing)
    /\ metrics' = Metrics(samples')
    /\ pc' = "cm_return"
    /\ UNCHANGED <<angles, events, cycles, timing, ret, raised, args, result>>

\* line 100
CalcMetricsReturn ==
    /\ pc = "cm_return"
    /\ ret' = DataFrame(metrics, names)
    /\ pc' = "done"
    /\ UNCHANGED <<angles, events, cycles, timing, samples, metrics, raised, args,
                 result>>

\* lines 116-123
AvgGaitPhase ==
    /\ pc = "idle"
    /\ ret' = avg_gait_phase(angles, events)
    /\ pc' = "avg_done"
    /\ UNCHANGED <<angles, events, cycles, timing, samples, metrics, raised, args,
                 result>>

Next ==
    \/ CalcMetricsCall
    \/ CalcMetricsCycles
    \/ CalcMetricsAlign
    \/ CalcMetricsRows
    \/ CalcMetricsReturn
    \/ AvgGaitPhase

Spec == Init /\ [][Next]_vars

(***************************************************************************)
(* Properties of calc_metrics and avg_gait_phase                           *)
(***************************************************************************)
NoData(unit) == <<"n", "a", "n", " ", "±", " ", "n", "a", "n", " ">> \o unit

NoRatio == <<"n", "a", "n", "%">>

RightStrikeMissing ==
    events[1] = <<>> /\ events[2] /= <<>> /\ events[3] /= <<>> /\ events[4] /= <<>>

\* C1: calc_metrics with an empty right-strike sequence and the other three
\* sequences non-empty does not raise; it returns the full report, whose
\* Right entries (and ratios) are 'nan' with the unit, and whose Left entries
\* are those of the report for any valid right-strike sequence.
C1_EmptyRightStrike ==
    RightStrikeMissing =>
        /\ pc /= "raised"
        /\ raised = NoError
        /\ pc = "done" =>
              /\ Len(ret.rows) = 7
              /\ \A i \in 1..7 :
                    /\ ret.rows[i][2] = NoData(IF i <= 3 THEN Degree ELSE Millis)
                    /\ ret.rows[i][4] = NoRatio
              /\ \A rhs2 \in EventSeqs(StrikeFrames) :
                    LET alt == calc_metrics(angles, <<rhs2, events[2], events[3],
                                                      events[4]>>)
                    IN /\ alt.raised = NoError
                       /\ \A i \in 1..7 : alt.ret.rows[i][3] = ret.rows[i][3]

C1_Witness ==
    /\ RightStrikeMissing
    /\ pc = "done"
    /\ Len(events[2]) >= 2
    /\ ret.rows[1][2] = NoData(Degree)
    /\ ret.rows[1][3] /= NoData(Degree)

\* C3: every report returned by calc_metrics has the seven rows Range of
\* motion, Max peak, Max peak (loading response), Total step time, Stance
\* time, Swing time, Double support time, in this order, and the four
\* columns Metric, Right side, Left side, Right / Left ratio.
C3_ReportShape ==
    pc = "done" =>
        /\ ret.columns = <<"Metric", "Right side", "Left side", "Right / Left ratio">>
        /\ [i \in 1..Len(ret.rows) |-> ret.rows[i][1]]
              = <<"Range of motion", "Max peak", "Max peak (loading response)",
                  "Total step time", "Stance time", "Swing time",
                  "Double support time">>
        /\ \A i \in 1..Len(ret.rows) : Len(ret.rows[i]) = Len(ret.columns)

C3_Witness ==
    /\ pc = "done"
    /\ Len(ret.rows) = 7
    /\ events[1] = <<>>
    /\ Len(events[2]) = 2

SomeAlignmentEmpty ==
    \/ events[1] = <<>> /\ events[3] = <<>>
    \/ events[2] = <<>> /\ events[4] = <<>>
    \/ events[1] = <<>> /\ events[4] = <<>>
    \/ events[2] = <<>> /\ events[3] = <<>>

\* C9: when an alignment of calc_metrics fails with MisalignedSequenceError
\* (both of its sequences empty), the call ends with that error: no row is
\* built and no report, partial or complete, is returned.
C9_ErrorPropagates ==
    /\ SomeAlignmentEmpty /\ pc \notin {"idle", "cm_cycles", "cm_align", "avg_done"} =>
          /\ pc = "raised"
          /\ raised = MisalignedSequenceError
          /\ samples = <<>>
          /\ metrics = <<>>
          /\ ret = None
    /\ pc = "raised" => SomeAlignmentEmpty

C9_Witness ==
    /\ pc = "raised"
    /\ raised = MisalignedSequenceError
    /\ events[1] = <<>> /\ events[3] = <<>>
    /\ Len(events[2]) = 2 /\ events[4] /= <<>>
    /\ ret = None

\* C10 as stated: the per-cycle value of the row 'Max peak (loading
\* response)' is the maximum of the samples at 0% through 30% inclusive.
C10_LoadingInclusive ==
    pc \in {"cm_return", "done"} =>
        \A side \in 1..2 : \A c \in 1..Len(cycles[side]) :
            samples[3][side + 2].num[c] = SeqMax(SubSeq(cycles[side][c], 1, 31))

\* C10 amended: the per-cycle value of the row 'Max peak (loading response)'
\* is the maximum of the first 30 samples of the cycle, the points 0%
\* through 29%; the sample at 30% and the later ones do not enter it.
C10_LoadingFirstThirty ==
    pc \in {"cm_return", "done"} =>
        \A side \in 1..2 :
            /\ Len(samples[3][side + 2].num) = Len(cycles[side])
            /\ \A c \in 1..Len(cycles[side]) :
                  LET v == samples[3][side + 2].num[c]
                  IN /\ \E k \in 1..30 : cycles[side][c][k] = v
                     /\ \A k \in 1..30 : cycles[side][c][k] <= v

C10_Witness ==
    /\ pc = "done"
    /\ Len(cycles[1]) >= 1
    /\ cycles[1][1][31] > samples[3][3].num[1]
    /\ samples[3][1] = "Max peak (loading response)"

(***************************************************************************)
(* The primitives on their own: one call on inputs drawn from bounded sets *)
(***************************************************************************)
RECURSIVE SeqsUpTo(_, _)
SeqsUpTo(S, n) ==
    IF n = 0 THEN {<<>>}
    ELSE LET shorter == SeqsUpTo(S, n - 1)
         IN shorter \cup {Append(q, x) : q \in shorter, x \in S}

\* the engine is not running
EngineIdle ==
    /\ angles = <<>>
    /\ events = NoEvents
    /\ cycles = <<<<>>, <<>>>>
    /\ timing = NoTiming
    /\ samples = <<>>
    /\ metrics = <<>>
    /\ ret = None
    /\ raised = NoError

engineVars == <<angles, events, cycles, timing, samples, metrics, ret, raised>>

\* normed_gait_phases on any event sequence, ascending or not
NormFrames == {0, 1, 3}

InitNorm ==
    /\ EngineIdle
    /\ pc = "norm_call"
    /\ \E e \in SeqsUpTo(NormFrames, MaxNormEvents), ph \in Phases :
          args = [signal |-> Col(Recording(ph, ph), 0), events |-> e]
    /\ result = <<>>

NormCall ==
    /\ pc = "norm_call"
    /\ result' = normed_gait_phases(args.signal, args.events)
    /\ pc' = "norm_done"
    /\ UNCHANGED <<engineVars, args>>

SpecNorm == InitNorm /\ [][NormCall]_vars

\* align_values
AlignFramesA == {100, 101}

AlignFramesB == {99, 130, 131}

Tolerances == {29, 30}

InitAlign ==
    /\ EngineIdle
    /\ pc = "align_call"
    /\ args \in [a : SeqsUpTo(AlignFramesA, MaxAlignLen),
                 b : SeqsUpTo(AlignFramesB, MaxAlignLen),
                 mode : {"diff"}, tolerance : Tolerances, start_left : BOOLEAN]
    /\ result = <<>>

AlignCall ==
    /\ pc = "align_call"
    /\ result' = align_values(args.a, args.b, args.mode, args.tolerance, args.start_left)
    /\ pc' = "align_done"
    /\ UNCHANGED <<engineVars, args>>

SpecAlign == InitAlign /\ [][AlignCall]_vars

\* filter_outliers, applied once and then to its own result
FilterValues == {0, 1, 10}

InitFilter ==
    /\ EngineIdle
    /\ pc = "filter_call"
    /\ \E v \in SeqsUpTo(FilterValues, MaxFilterLen) : args = [values |-> Sample(v, 1)]
    /\ result = <<>>

FilterOnce ==
    /\ pc = "filter_call"
    /\ result' = <<filter_outliers(args.values)>>
    /\ pc' = "filter_once"
    /\ UNCHANGED <<engineVars, args>>

FilterAgain ==
    /\ pc = "filter_once"
    /\ result' = Append(result, filter_outliers(result[1]))
    /\ pc' = "filter_twice"
    /\ UNCHANGED <<engineVars, args>>

NextFilter == FilterOnce \/ FilterAgain

SpecFilter == InitFilter /\ [][NextFilter]_vars

\* calc_metrics._ratio_str
RatioValues == {-10, 0, 8, 10, 12}

InitRatio ==
    /\ EngineIdle
    /\ pc = "ratio_call"
    /\ \E r \in SeqsUpTo(RatioValues, MaxRatioLen), l \in SeqsUpTo(RatioValues, MaxRatioLen) :
          args = [r |-> Sample(r, 1), l |-> Sample(l, 1)]
    /\ result = <<>>

RatioCall ==
    /\ pc = "ratio_call"
    /\ result' = _ratio_str(args.r, args.l)
    /\ pc' = "ratio_done"
    /\ UNCHANGED <<engineVars, args>>

SpecRatio == InitRatio /\ [][RatioCall]_vars

(***************************************************************************)
(* Properties of the primitives                                            *)
(***************************************************************************)
DigitVal(ch) == CHOOSE d \in 0..9 : Digits[d + 1] = ch

IsDigit(ch) == \E d \in 0..9 : Digits[d + 1] = ch

\* the number written by a sequence of digits
RECURSIVE DigitsVal(_)
DigitsVal(t) ==
    IF Len(t) = 0 THEN 0
    ELSE 10 * DigitsVal(SubSeq(t, 1, Len(t) - 1)) + DigitVal(t[Len(t)])

\* t reads [-]d..d.dd%
IsPercentText(t) ==
    LET u == IF Len(t) > 0 /\ t[1] = "-" THEN Tail(t) ELSE t
    IN /\ Len(u) >= 5
       /\ u[Len(u)] = "%"
       /\ u[Len(u) - 3] = "."
       /\ \A i \in 1..Len(u) : i \notin {Len(u), Len(u) - 3} => IsDigit(u[i])

\* the hundredths written by [-]d..d.dd%, without the sign
PercentHundredths(t) ==
    LET u == IF t[1] = "-" THEN Tail(t) ELSE t
    IN 100 * DigitsVal(SubSeq(u, 1, Len(u) - 4)) + DigitsVal(SubSeq(u, Len(u) - 2, Len(u) - 1))

\* C2: for samples with means right_mean and left_mean /= 0, _ratio_str
\* returns 100*right_mean/left_mean - 100 with two decimals and '%',
\* prefixed with '+' exactly when right_mean/left_mean > 1; the text never
\* starts with '+-'; means 12 and 10 give "+20.00%", means 8 and 10 give
\* "-20.00%".
C2_RatioSign ==
    (pc = "ratio_done" /\ Len(args.r.num) > 0 /\ Len(args.l.num) > 0 /\ Sum(args.l.num) /= 0) =>
        LET R == Sum(args.r.num) * Len(args.l.num)      \* right_mean / left_mean = R / L
            L == Sum(args.l.num) * Len(args.r.num)
            greater == (L > 0 /\ R > L) \/ (L < 0 /\ R < L)
            plus == result[1] = "+"
            body == IF plus THEN Tail(result) ELSE result
            exact == (IF L < 0 THEN -1 ELSE 1) * 10000 * (R - L)   \* hundredths * |L|
        IN /\ plus <=> greater
           /\ IsPercentText(body)
           /\ plus => body[1] /= "-"
           /\ body[1] = "-" <=> exact < 0
           /\ 2 * Abs(PercentHundredths(body) * Abs(L) - Abs(exact)) <= Abs(L)
           /\ (Sum(args.r.num) = 12 * Len(args.r.num) /\ Sum(args.l.num) = 10 * Len(args.l.num))
                 => result = <<"+", "2", "0", ".", "0", "0", "%">>
           /\ (Sum(args.r.num) = 8 * Len(args.r.num) /\ Sum(args.l.num) = 10 * Len(args.l.num))
                 => result = <<"-", "2", "0", ".", "0", "0", "%">>

C2_Witness ==
    /\ pc = "ratio_done"
    /\ args.r.num = <<12>>
    /\ args.l.num = <<10, 10>>
    /\ result = <<"+", "2", "0", ".", "0", "0", "%">>

\* C5: align_values keeps a candidate pair (a, b) exactly when
\* |b - a| <= tolerance, the boundary included: [100] against [130] in mode
\* 'diff' gives the one delta 30 with tolerance 30 and nothing with
\* tolerance 29; no returned delta exceeds the tolerance in absolute value.
C5_ToleranceBoundary ==
    (pc = "align_done" /\ result.raised = NoError) =>
        /\ \A n \in 1..Len(result.values) : Abs(result.values[n]) <= args.tolerance
        /\ (Len(args.a) = 1 /\ Len(args.b) = 1 /\ args.b[1] >= args.a[1]) =>
              result.values = IF Abs(args.b[1] - args.a[1]) <= args.tolerance
                              THEN <<args.b[1] - args.a[1]>> ELSE <<>>
        /\ (args.a = <<100>> /\ args.b = <<130>> /\ args.tolerance = 30) =>
              result.values = <<30>>
        /\ (args.a = <<100>> /\ args.b = <<130>> /\ args.tolerance = 29) =>
              result.values = <<>>

C5_Witness ==
    /\ pc = "align_done"
    /\ args.a = <<100>> /\ args.b = <<130>> /\ args.tolerance = 30 /\ args.start_left
    /\ result.values = <<30>>

\* C6: no element of events_b (and none of events_a) is in two matched
\* pairs of align_values, also when two elements of events_a have the same
\* nearest element of events_b within tolerance; the number of deltas is at
\* most min(len(events_a), len(events_b)).
C6_NoReuse ==
    (pc = "align_done" /\ result.raised = NoError) =>
        /\ Len(result.values) = Len(result.pairs)
        /\ \A m, n \in 1..Len(result.pairs) :
              m /= n => /\ result.pairs[m][2] /= result.pairs[n][2]
                        /\ result.pairs[m][1] /= result.pairs[n][1]
        /\ \A n \in 1..Len(result.pairs) :
              /\ result.pairs[n][1] \in 1..Len(args.a)
              /\ result.pairs[n][2] \in 1..Len(args.b)
              /\ result.values[n] = args.b[result.pairs[n][2]] - args.a[result.pairs[n][1]]
        /\ Len(result.values) <= MinOf(Len(args.a), Len(args.b))

C6_Witness ==
    /\ pc = "align_done"
    /\ args.a = <<100, 101>> /\ args.b = <<130>> /\ args.tolerance = 30 /\ args.start_left
    /\ result.pairs = <<<<1, 1>>>>

RECURSIVE IsSubsequence(_, _)
IsSubsequence(t, u) ==
    IF Len(t) = 0 THEN TRUE
    ELSE IF Len(u) = 0 THEN FALSE
    ELSE IF Head(t) = Head(u) THEN IsSubsequence(Tail(t), Tail(u))
    ELSE IsSubsequence(t, Tail(u))

StanceTail == {6, 25}

\* the strike-to-take-off delays of one side: a run of 5 frames, then at
\* most two other delays
StanceDelays ==
    {[i \in 1..k |-> 5] \o t : k \in 0..(MaxStrides - 2), t \in SeqsUpTo(StanceTail, 2)}

\* strides of alternately one frame more and one frame less
Strikes(n, first) == [i \in 1..n |-> first + StrideFrames * (i - 1) + ((i - 1) % 2)]

TakeOffs(strikes, delays) == [i \in 1..Len(delays) |-> strikes[i] + delays[i]]

WalkEvents(dr, dl) ==
    LET rhs == Strikes(Len(dr), 0)
        lhs == Strikes(Len(dl), StrideFrames \div 2)
    IN <<rhs, lhs, TakeOffs(rhs, dr), TakeOffs(lhs, dl)>>

WalkRecording ==
    [i \in 1..(StrideFrames * (MaxStrides + 1)) |-> <<Wave(i - 1, 0), Wave(i - 1, 3)>>]

InitWalk ==
    /\ angles = WalkRecording
    /\ \E dr \in StanceDelays, dl \in StanceDelays : events = WalkEvents(dr, dl)
    /\ pc = "idle"
    /\ cycles = <<<<>>, <<>>>>
    /\ timing = NoTiming
    /\ samples = <<>>
    /\ metrics = <<>>
    /\ ret = None
    /\ raised = NoError
    /\ args = <<>>
    /\ result = <<>>

SpecWalk == InitWalk /\ [][Next]_vars

(***************************************************************************)
(* Properties of the rows                                                  *)
(***************************************************************************)
\* C11: in every row of calc_metrics the Right and the Left sample pass
\* filter_outliers separately, the time samples after their conversion to
\* milliseconds, and the three derived fields (Right and Left 'mean ± std',
\* ratio) come from the filtered samples only.
C11_RowsFromFiltered ==
    pc \in {"cm_return", "done"} =>
        /\ Len(metrics) = Len(samples)
        /\ \A i \in 1..Len(samples) :
              LET fr == filter_outliers(samples[i][3])
                  fl == filter_outliers(samples[i][4])
              IN /\ metrics[i][1] = samples[i][1]
                 /\ metrics[i][2] = _mean_std_str(fr, samples[i][2])
                 /\ metrics[i][3] = _mean_std_str(fl, samples[i][2])
                 /\ metrics[i][4] = _ratio_str(fr, fl)
        /\ samples[5][3] = Sample([n \in 1..Len(timing.rstance) |-> 20 * timing.rstance[n]], 1)
        /\ samples[5][4] = Sample([n \in 1..Len(timing.lstance) |-> 20 * timing.lstance[n]], 1)
        /\ timing.rstance = <<5, 5, 5, 5, 5, 6, 25>> =>
              /\ filter_outliers(samples[5][3]).num = <<100, 100, 100, 100, 100, 120>>
              /\ metrics[5][2] = <<"1", "0", "3", ".", "3", " ", "±", " ", "7", ".", "5",
                                   " ", "m", "s">>
        /\ (timing.rstance = <<5, 5, 5, 5, 5, 6, 25>> /\ timing.lstance = <<5, 5>>) =>
              metrics[5][4] = <<"+", "3", ".", "3", "3", "%">>

C11_Witness ==
    /\ pc = "done"
    /\ timing.rstance = <<5, 5, 5, 5, 5, 6, 25>>
    /\ timing.lstance = <<5, 5>>
    /\ samples[5][3].num = <<100, 100, 100, 100, 100, 120, 500>>
    /\ metrics[5][4] = <<"+", "3", ".", "3", "3", "%">>

\* every value of t is tb[j] - ta[i] for two elements at most tol frames apart
DiffsWithin(t, ta, tb, tol) ==
    \A n \in 1..Len(t) :
        /\ Abs(t[n]) <= tol
        /\ \E i \in 1..Len(ta), j \in 1..Len(tb) : t[n] = tb[j] - ta[i]

\* the take-off nearest to the strike s among those not before it is at
\* most tol frames after it
HasPartner(s, offs, tol) == \E j \in 1..Len(offs) : offs[j] >= s /\ offs[j] - s <= tol

\* C12: the timing samples of calc_metrics are signed differences b - a of
\* align_values in mode 'diff', anchored left: stance from a strike to a
\* take-off of the same side and swing from a take-off to a strike of the
\* same side, both at most 30 frames; double support from a strike to a
\* take-off of the other side, at most 10 frames.
C12_TimingSamples ==
    pc \in {"cm_rows", "cm_return", "done"} =>
        /\ DiffsWithin(timing.rstance, events[1], events[3], 30)
        /\ DiffsWithin(timing.lstance, events[2], events[4], 30)
        /\ DiffsWithin(timing.rswing, events[3], events[1], 30)
        /\ DiffsWithin(timing.lswing, events[4], events[2], 30)
        /\ DiffsWithin(timing.rdouble, events[1], events[4], 10)
        /\ DiffsWithin(timing.ldouble, events[2], events[3], 10)
        /\ Len(events[1]) = 1 =>
              /\ timing.rstance /= <<>> <=> HasPartner(events[1][1], events[3], 30)
              /\ timing.rdouble /= <<>> <=> HasPartner(events[1][1], events[4], 10)
        /\ Len(events[3]) = 1 =>
              timing.rswing /= <<>> <=> HasPartner(events[3][1], events[1], 30)
        /\ timing = AlignedValues(
              [rstance |-> align_values(events[1], events[3], "diff", 30, TRUE),
               lstance |-> align_values(events[2], events[4], "diff", 30, TRUE),
               rswing |-> align_values(events[3], events[1], "diff", 30, TRUE),
               lswing |-> align_values(events[4], events[2], "diff", 30, TRUE),
               rdouble |-> align_values(events[1], events[4], "diff", 10, TRUE),
               ldouble |-> align_values(events[2], events[3], "diff", 10, TRUE)])

C12_Witness ==
    /\ pc = "done"
    /\ events = <<<<1>>, <<0, 21>>, <<31>>, <<11>>>>
    /\ timing.rstance = <<30>>
    /\ timing.rdouble = <<10>>
    /\ timing.lstance = <<11>>
    /\ timing.ldouble = <<10>>
    /\ timing.rswing = <<>>

\* C13: for a side with n >= 2 strikes the 'Total step time' sample has the
\* n - 1 values 20 * (strike[i+1] - strike[i]), frames at 50 Hz in
\* milliseconds; the stance, swing and double-support samples are 20 times
\* their frame differences; the three angle samples are in degrees,
\* unscaled.
C13_Milliseconds ==
    pc \in {"cm_return", "done"} =>
        /\ \A side \in 1..2 :
              LET e == events[side]
                  step == samples[4][side + 2]
              IN /\ step.den = 1
                 /\ Len(e) >= 2 =>
                       /\ Len(step.num) = Len(e) - 1
                       /\ \A i \in 1..(Len(e) - 1) : step.num[i] = 20 * (e[i + 1] - e[i])
                 /\ Len(e) < 2 => step.num = <<>>
        /\ \A row \in 5..7 : \A side \in 1..2 :
              LET t == CASE row = 5 -> <<timing.rstance, timing.lstance>>
                         [] row = 6 -> <<timing.rswing, timing.lswing>>
                         [] row = 7 -> <<timing.rdouble, timing.ldouble>>
                  v == samples[row][side + 2]
              IN /\ v.den = 1
                 /\ Len(v.num) = Len(t[side])
                 /\ \A n \in 1..Len(v.num) : v.num[n] = 20 * t[side][n]
        /\ \A side \in 1..2 :
              /\ \A row \in 1..3 : /\ samples[row][side + 2].den = 100
                                   /\ Len(samples[row][side + 2].num) = Len(cycles[side])
              /\ \A c \in 1..Len(cycles[side]) :
                    /\ samples[1][side + 2].num[c]
                          = SeqMax(cycles[side][c]) - SeqMin(cycles[side][c])
                    /\ samples[2][side + 2].num[c] = SeqMax(cycles[side][c])

C13_Witness ==
    /\ pc = "done"
    /\ Len(events[1]) = 7
    /\ samples[4][3].num = <<820, 780, 820, 780, 820, 780>>
    /\ samples[5][3].num = <<100, 100, 100, 100, 100, 120, 500>>
    /\ Len(cycles[1]) = 6

====
